---- MODULE Spec2Model ----
(***************************************************************************)
(* OpenTrackIO property decoders (src/src/OpenTrackIOProperties.cpp).      *)
(*                                                                         *)
(* Each of the eleven decoders is a function                               *)
(*     (const json&, std::vector<std::string>& errors) -> std::optional<T> *)
(* The model keeps one JSON document, the shared error list and the        *)
(* outcome of the most recent decoder call.  One action per decoder.       *)
(*                                                                         *)
(* JSON strings are sequences of one-character strings so that the         *)
(* std::regex patterns of the source can be evaluated character by         *)
(* character.  Doubles are carried in tenths (15 stands for 1.5).          *)
(***************************************************************************)
EXTENDS Integers, Sequences, FiniteSets, TLC

VARIABLES doc, errors, before, called, status, result, calls, firstCall, assertions

vars == <<doc, errors, before, called, status, result, calls, firstCall, assertions>>

---------------------------------------------------------------------------
(* Bounds of the model.                                                    *)

MaxArr == 3

MaxCalls == 2

---------------------------------------------------------------------------
(* nlohmann::json values.                                                  *)

JNull == [kind |-> "null"]

JBool(b) == [kind |-> "boolean", b |-> b]

JInt(n) == [kind |-> "integer", n |-> n]

JFloat(t) == [kind |-> "float", t |-> t]

JStr(s) == [kind |-> "string", s |-> s]

JArr(items) == [kind |-> "array", items |-> items]

JObj(fields) == [kind |-> "object", fields |-> fields]

NoFields == [k \in {} |-> JNull]

is_object(json) == json.kind = "object"

is_array(json) == json.kind = "array"

\* basic_json::contains(key): false for every value that is not an object.
contains(json, key) == json.kind = "object" /\ key \in DOMAIN json.fields

\* const operator[](key), used where the key is known to be there.
at(json, key) == json.fields[key]

\* std::optional
nullopt == [has |-> FALSE]

Some(v) == [has |-> TRUE, value |-> v]

\* What a decoder call leaves behind.
Ret(res, errs) == [status |-> "returned", result |-> res, errors |-> errs]

---------------------------------------------------------------------------
(* Validation helpers (opentrackio-cpp/OpenTrackIOHelper.h).               *)

UINT16_MAX == 65535

IsNumber(j) == j.kind \in {"integer", "float"}

AsDouble(j) == IF j.kind = "integer" THEN j.n * 10 ELSE j.t

\* The JSON kinds a target of C++ type T accepts.  The upper limit of the
\* 32 and 64 bit types lies outside the integers of the model.
TypeOk(j, T) ==
    CASE T = "string" -> j.kind = "string"
      [] T = "bool" -> j.kind = "boolean"
      [] T = "double" -> IsNumber(j)
      [] T = "int" -> j.kind = "integer"
      [] T = "int64" -> j.kind = "integer"
      [] T = "uint32" -> j.kind = "integer" /\ j.n >= 0
      [] T = "uint16" -> j.kind = "integer" /\ j.n >= 0 /\ j.n <= UINT16_MAX
      [] T = "vector<double>" ->
            j.kind = "array" /\ \A i \in 1..Len(j.items) : IsNumber(j.items[i])

Convert(j, T) ==
    CASE T = "string" -> j.s
      [] T = "bool" -> j.b
      [] T = "double" -> AsDouble(j)
      [] T \in {"int", "int64", "uint32", "uint16"} -> j.n
      [] T = "vector<double>" -> [i \in 1..Len(j.items) |-> AsDouble(j.items[i])]

\* checkTypeAndSetField(jsonVal, field): true and the converted value when
\* the JSON kind fits the field's type, false otherwise.
checkTypeAndSetField(jsonVal, T) ==
    IF TypeOk(jsonVal, T)
    THEN [ok |-> TRUE, value |-> Convert(jsonVal, T)]
    ELSE [ok |-> FALSE]

\* assignField(json, fieldStr, field, typeStr, errors): T is the type of the
\* target field.  Yields the new target and the errors appended.
assignField(json, fieldStr, field, T, typeStr) ==
    IF ~contains(json, fieldStr)
    THEN [field |-> field, errs |-> <<>>]
    ELSE LET r == checkTypeAndSetField(at(json, fieldStr), T)
         IN  IF r.ok
             THEN [field |-> Some(r.value), errs |-> <<>>]
             ELSE [field |-> nullopt,
                   errs |-> << "field: " \o fieldStr \o " isn't of type: " \o typeStr >>]

\* iterateJsonArrayAndPopulateVector(array, vector<double>): false on the
\* first element that is not a number.
iterateJsonArrayAndPopulateVector(json) ==
    IF \A i \in 1..Len(json.items) : IsNumber(json.items[i])
    THEN [ok |-> TRUE, value |-> [i \in 1..Len(json.items) |-> AsDouble(json.items[i])]]
    ELSE [ok |-> FALSE]

---------------------------------------------------------------------------
(* std::regex patterns of the source, matched with std::regex_match.       *)

Digit == {"0", "1", "2", "3", "4", "5", "6", "7", "8", "9"}

LowerHex == Digit \cup {"a", "b", "c", "d", "e", "f"}

UpperHex == Digit \cup {"A", "B", "C", "D", "E", "F"}

LineTerminator == {"\n", "\r"}

AllIn(s, from, to, class) == \A i \in from..to : s[i] \in class

\* ^urn:uuid:[0-9a-f]{8}-[0-9a-f]{4}-[0-9a-f]{4}-[0-9a-f]{4}-[0-9a-f]{12}$
UuidPrefix == <<"u", "r", "n", ":", "u", "u", "i", "d", ":">>

MatchUuid(s) ==
    /\ Len(s) = 45
    /\ SubSeq(s, 1, 9) = UuidPrefix
    /\ AllIn(s, 10, 17, LowerHex) /\ s[18] = "-"
    /\ AllIn(s, 19, 22, LowerHex) /\ s[23] = "-"
    /\ AllIn(s, 24, 27, LowerHex) /\ s[28] = "-"
    /\ AllIn(s, 29, 32, LowerHex) /\ s[33] = "-"
    /\ AllIn(s, 34, 45, LowerHex)

\* ^[0-9]+.[0-9]+.[0-9]+$   (an unescaped . matches any character but a
\* line terminator)
MatchVersion(s) ==
    \E i \in 2..Len(s) : \E j \in (i + 2)..Len(s) :
        /\ j < Len(s)
        /\ AllIn(s, 1, i - 1, Digit)
        /\ s[i] \notin LineTerminator
        /\ AllIn(s, i + 1, j - 1, Digit)
        /\ s[j] \notin LineTerminator
        /\ AllIn(s, j + 1, Len(s), Digit)

\* ^([A-F0-9]{2}:){5}[A-F0-9]{2}$
MatchMac(s) ==
    /\ Len(s) = 17
    /\ \A i \in 1..17 : IF i % 3 = 0 THEN s[i] = ":" ELSE s[i] \in UpperHex

Matches(pattern, s) ==
    CASE pattern = "uuid" -> MatchUuid(s)
      [] pattern = "version" -> MatchVersion(s)
      [] pattern = "mac" -> MatchMac(s)

\* assignRegexField(json, fieldStr, field, pattern, errors)
assignRegexField(json, fieldStr, field, pattern) ==
    IF ~contains(json, fieldStr)
    THEN [field |-> field, errs |-> <<>>]
    ELSE LET r == checkTypeAndSetField(at(json, fieldStr), "string")
         IN  IF ~r.ok
             THEN [field |-> nullopt,
                   errs |-> << "field: " \o fieldStr \o " isn't of type: string" >>]
             ELSE IF ~Matches(pattern, r.value)
             THEN [field |-> nullopt,
                   errs |-> << "field: " \o fieldStr \o " doesn't match required pattern" >>]
             ELSE [field |-> Some(r.value), errs |-> <<>>]

---------------------------------------------------------------------------
(* Primitive parsers (opentrackio-cpp/OpenTrackIOTypes.h).                 *)

NoField == [field |-> nullopt, errs |-> <<>>]

\* Rational::parse: an object with integer num and denom.
RationalParse(json) ==
    IF contains(json, "num") /\ contains(json, "denom")
       /\ at(json, "num").kind = "integer" /\ at(json, "denom").kind = "integer"
    THEN [field |-> Some([numerator |-> at(json, "num").n,
                          denominator |-> at(json, "denom").n]),
          errs |-> <<>>]
    ELSE [field |-> nullopt, errs |-> << "field: rational is missing required fields" >>]

\* Dimensions::parse: an object with numeric width and height.
DimensionsParse(json) ==
    IF contains(json, "width") /\ contains(json, "height")
       /\ IsNumber(at(json, "width")) /\ IsNumber(at(json, "height"))
    THEN [field |-> Some([width |-> AsDouble(at(json, "width")),
                          height |-> AsDouble(at(json, "height"))]),
          errs |-> <<>>]
    ELSE [field |-> nullopt, errs |-> << "field: dimensions is missing required fields" >>]

\* Timestamp::parse: an object with integer seconds and nanoseconds.
TimestampParse(json) ==
    IF contains(json, "seconds") /\ contains(json, "nanoseconds")
       /\ at(json, "seconds").kind = "integer" /\ at(json, "nanoseconds").kind = "integer"
    THEN [field |-> Some([seconds |-> at(json, "seconds").n,
                          nanoseconds |-> at(json, "nanoseconds").n]),
          errs |-> <<>>]
    ELSE [field |-> nullopt, errs |-> << "field: timestamp is missing required fields" >>]

\* Timecode::parse: an object with integer hours, minutes, seconds, frames.
TimecodeParse(json) ==
    IF \A k \in {"hours", "minutes", "seconds", "frames"} :
            contains(json, k) /\ at(json, k).kind = "integer"
    THEN [field |-> Some([hours |-> at(json, "hours").n,
                          minutes |-> at(json, "minutes").n,
                          seconds |-> at(json, "seconds").n,
                          frames |-> at(json, "frames").n]),
          errs |-> <<>>]
    ELSE [field |-> nullopt, errs |-> << "field: timecode is missing required fields" >>]

\* Transform::parse: an object with a string id.
TransformParse(json) ==
    IF contains(json, "id") /\ at(json, "id").kind = "string"
    THEN [field |-> Some([id |-> at(json, "id").s]), errs |-> <<>>]
    ELSE [field |-> nullopt, errs |-> << "field: transform is missing required fields" >>]

---------------------------------------------------------------------------
(* Camera::parse                                                           *)

SHUTTER_ANGLE_MAX == 360000

\* lines 33-75: the fields of a camera section that is an object
CameraFields(cameraJson, errs0) ==
    LET aspd == IF contains(cameraJson, "activeSensorPhysicalDimensions")
                THEN DimensionsParse(at(cameraJson, "activeSensorPhysicalDimensions"))
                ELSE NoField
        asr == IF contains(cameraJson, "activeSensorResolution")
               THEN DimensionsParse(at(cameraJson, "activeSensorResolution"))
               ELSE NoField
        asq == IF contains(cameraJson, "anamorphicSqueeze")
               THEN RationalParse(at(cameraJson, "anamorphicSqueeze"))
               ELSE NoField
        fw == assignField(cameraJson, "firmwareVersion", nullopt, "string", "string")
        lb == assignField(cameraJson, "label", nullopt, "string", "string")
        mk == assignField(cameraJson, "make", nullopt, "string", "string")
        md == assignField(cameraJson, "model", nullopt, "string", "string")
        sn == assignField(cameraJson, "serialNumber", nullopt, "string", "string")
        cfr == IF contains(cameraJson, "captureFrameRate")
               THEN RationalParse(at(cameraJson, "captureFrameRate"))
               ELSE NoField
        fdl == assignRegexField(cameraJson, "fdlLink", nullopt, "uuid")
        iso == assignField(cameraJson, "isoSpeed", nullopt, "int", "integer")
        sa == assignField(cameraJson, "shutterAngle", nullopt, "int", "integer")
        outside == sa.field.has /\ sa.field.value > SHUTTER_ANGLE_MAX
        cam == [activeSensorPhysicalDimensions |-> aspd.field,
                activeSensorResolution |-> asr.field,
                anamorphicSqueeze |-> asq.field,
                firmwareVersion |-> fw.field,
                label |-> lb.field,
                make |-> mk.field,
                model |-> md.field,
                serialNumber |-> sn.field,
                captureFrameRate |-> cfr.field,
                fdlLink |-> fdl.field,
                isoSpeed |-> iso.field,
                shutterAngle |-> IF outside THEN nullopt ELSE sa.field]
    IN  Ret(Some(cam),
            errs0 \o aspd.errs \o asr.errs \o asq.errs \o fw.errs \o lb.errs
                  \o mk.errs \o md.errs \o sn.errs \o cfr.errs \o fdl.errs
                  \o iso.errs \o sa.errs
                  \o (IF outside
                      THEN << "field: shutterAngle is outside the expected range 1 - 360000." >>
                      ELSE <<>>))

\* a decoder that reports the section it did not find
CameraParse_ReportsAbsent(json, errs0) ==
    IF ~contains(json, "static") \/ ~contains(at(json, "static"), "camera")
    THEN Ret(nullopt, Append(errs0, "field: camera is missing"))
    ELSE IF ~is_object(at(at(json, "static"), "camera"))
    THEN Ret(nullopt, Append(errs0, "field: camera isn't of type: object"))
    ELSE CameraFields(at(at(json, "static"), "camera"), errs0)

CameraParse(json, errs0) ==
    IF ~contains(json, "static") \/ ~contains(at(json, "static"), "camera")
    THEN Ret(nullopt, errs0)
    ELSE IF ~is_object(at(at(json, "static"), "camera"))
    THEN Ret(nullopt, Append(errs0, "field: camera isn't of type: object"))
    ELSE CameraFields(at(at(json, "static"), "camera"), errs0)

---------------------------------------------------------------------------
(* Duration::parse                                                         *)

DurationParse(json, errs0) ==
    IF ~contains(json, "static") \/ ~contains(at(json, "static"), "duration")
    THEN Ret(nullopt, errs0)
    ELSE IF ~is_object(at(at(json, "static"), "duration"))
    THEN Ret(nullopt, Append(errs0, "field: duration isn't of type: object"))
    ELSE
    LET durationJson == at(at(json, "static"), "duration")
        \* both assignments target the local variable numerator
        a1 == assignField(durationJson, "num", nullopt, "uint32", "uint32")
        a2 == assignField(durationJson, "denom", a1.field, "uint32", "uint32")
        numerator == a2.field
        denominator == nullopt
        errs1 == errs0 \o a1.errs \o a2.errs
    IN  IF ~numerator.has \/ ~denominator.has
        THEN Ret(nullopt, Append(errs1, "field: duration is missing required fields"))
        ELSE Ret(Some([numerator |-> numerator.value,
                       denominator |-> denominator.value]), errs1)

---------------------------------------------------------------------------
(* GlobalStage::parse                                                      *)

GsFields == <<"E", "N", "U", "lat0", "lon0", "h0">>

\* the lambda fieldCheckAndAssign
fieldCheckAndAssign(gsJson, fieldStr) ==
    IF ~contains(gsJson, fieldStr)
    THEN [ok |-> FALSE,
          errs |-> << "field: globalStage is missing require field: " \o fieldStr >>]
    ELSE LET r == checkTypeAndSetField(at(gsJson, fieldStr), "double")
         IN  IF ~r.ok
             THEN [ok |-> FALSE,
                   errs |-> << "field: globalStage/" \o fieldStr \o " isn't a number" >>]
             ELSE [ok |-> TRUE, value |-> r.value, errs |-> <<>>]

GlobalStageParse(json, errs0) ==
    IF ~contains(json, "globalStage")
    THEN Ret(nullopt, errs0)
    ELSE IF ~is_object(at(json, "globalStage"))
    THEN Ret(nullopt, Append(errs0, "field: globalStage isn't of type: object"))
    ELSE
    LET gsJson == at(json, "globalStage")
        chk(i) == fieldCheckAndAssign(gsJson, GsFields[i])
        \* && evaluates left to right and stops at the first false operand
        failed == {i \in 1..Len(GsFields) : ~chk(i).ok}
    IN  IF failed # {}
        THEN LET first == CHOOSE i \in failed : \A k \in failed : i <= k
             IN  Ret(nullopt, errs0 \o chk(first).errs)
        ELSE Ret(Some([e |-> chk(1).value, n |-> chk(2).value, u |-> chk(3).value,
                       lat0 |-> chk(4).value, lon0 |-> chk(5).value,
                       h0 |-> chk(6).value]), errs0)

---------------------------------------------------------------------------
(* Lens::parse                                                             *)

LensParse(json, errs0) ==
    IF ~contains(json, "lens")
       /\ (~contains(json, "static") \/ ~contains(at(json, "static"), "lens"))
    THEN Ret(nullopt, errs0)
    ELSE
    LET hasStatic == contains(json, "static") /\ contains(at(json, "static"), "lens")
        \* a section that is not there reads as an object without keys
        sJson == IF hasStatic THEN at(at(json, "static"), "lens") ELSE JObj(NoFields)
        fw == assignField(sJson, "firmwareVersion", nullopt, "string", "string")
        mk == assignField(sJson, "make", nullopt, "string", "string")
        md == assignField(sJson, "model", nullopt, "string", "string")
        nfl == assignField(sJson, "nominalFocalLength", nullopt, "double", "double")
        sn == assignField(sJson, "serialNumber", nullopt, "string", "string")
        lensJson == IF contains(json, "lens") THEN at(json, "lens") ELSE JObj(NoFields)
        sub(k) == IF contains(lensJson, k) THEN at(lensJson, k) ELSE JObj(NoFields)
        cu == IF contains(lensJson, "custom") /\ is_array(at(lensJson, "custom"))
              THEN LET r == iterateJsonArrayAndPopulateVector(at(lensJson, "custom"))
                   IN  IF r.ok
                       THEN [field |-> Some(r.value), errs |-> <<>>]
                       ELSE [field |-> nullopt,
                             errs |-> << "field: lens/custom value isn't of type: double" >>]
              ELSE NoField
        dRad == assignField(sub("distortion"), "radial", nullopt, "vector<double>", "double")
        dTan == assignField(sub("distortion"), "tangential", nullopt, "vector<double>", "double")
        distortion == IF dRad.field.has
                      THEN Some([radial |-> dRad.field.value, tangential |-> dTan.field])
                      ELSE nullopt
        dOver == assignField(lensJson, "distortionOverscan", nullopt, "double", "double")
        dScale == assignField(lensJson, "distortionScale", nullopt, "double", "double")
        dsX == assignField(sub("distortionShift"), "x", nullopt, "double", "double")
        dsY == assignField(sub("distortionShift"), "y", nullopt, "double", "double")
        distortionShift == IF dsX.field.has /\ dsY.field.has
                           THEN Some([x |-> dsX.field.value, y |-> dsY.field.value])
                           ELSE nullopt
        enc == assignField(lensJson, "encoders", nullopt, "double", "double")
        epNum == assignField(sub("entrancePupilOffset"), "num", nullopt, "int64", "int64")
        epDen == assignField(sub("entrancePupilOffset"), "denom", nullopt, "int64", "int64")
        entrancePupilOffset ==
            IF epNum.field.has /\ epDen.field.has
            THEN Some([numerator |-> epNum.field.value, denominator |-> epDen.field.value])
            ELSE nullopt
        a1 == assignField(sub("exposureFalloff"), "a1", nullopt, "double", "double")
        a2 == assignField(sub("exposureFalloff"), "a2", nullopt, "double", "double")
        a3 == assignField(sub("exposureFalloff"), "a3", nullopt, "double", "double")
        exposureFalloff == IF a1.field.has
                           THEN Some([a1 |-> a1.field.value, a2 |-> a2.field, a3 |-> a3.field])
                           ELSE nullopt
        fStop == assignField(lensJson, "fStop", nullopt, "uint32", "uint32")
        focal == assignField(lensJson, "focalLength", nullopt, "double", "double")
        focus == assignField(lensJson, "focusDistance", nullopt, "uint32", "uint32")
        psX == assignField(sub("perspectiveShift"), "x", nullopt, "double", "double")
        psY == assignField(sub("perspectiveShift"), "y", nullopt, "double", "double")
        perspectiveShift == IF psX.field.has /\ psY.field.has
                            THEN Some([x |-> psX.field.value, y |-> psY.field.value])
                            ELSE nullopt
        raw == assignField(lensJson, "rawEncoders", nullopt, "double", "double")
        tStop == assignField(lensJson, "tStop", nullopt, "uint32", "uint32")
        uRad == assignField(sub("undistortion"), "radial", nullopt, "vector<double>", "double")
        uTan == assignField(sub("undistortion"), "tangential", nullopt, "vector<double>", "double")
        undistortion == IF uRad.field.has
                        THEN Some([radial |-> uRad.field.value, tangential |-> uTan.field])
                        ELSE nullopt
        lens == [firmwareVersion |-> fw.field, make |-> mk.field, model |-> md.field,
                 nominalFocalLength |-> nfl.field, serialNumber |-> sn.field,
                 custom |-> cu.field, distortion |-> distortion,
                 distortionOverscan |-> dOver.field, distortionScale |-> dScale.field,
                 distortionShift |-> distortionShift, encoders |-> enc.field,
                 entrancePupilOffset |-> entrancePupilOffset,
                 exposureFalloff |-> exposureFalloff, fStop |-> fStop.field,
                 focalLength |-> focal.field, focusDistance |-> focus.field,
                 perspectiveShift |-> perspectiveShift, rawEncoders |-> raw.field,
                 tStop |-> tStop.field, undistortion |-> undistortion]
    IN  Ret(Some(lens),
            errs0 \o fw.errs \o mk.errs \o md.errs \o nfl.errs \o sn.errs
                  \o cu.errs \o dRad.errs \o dTan.errs \o dOver.errs \o dScale.errs
                  \o dsX.errs \o dsY.errs \o enc.errs \o epNum.errs \o epDen.errs
                  \o a1.errs \o a2.errs \o a3.errs \o fStop.errs \o focal.errs
                  \o focus.errs \o psX.errs \o psY.errs \o raw.errs \o tStop.errs
                  \o uRad.errs \o uTan.errs)

---------------------------------------------------------------------------
(* Protocol::parse                                                         *)

\* What a read past the end of the object's map may deliver when the
\* library's assertion is compiled out.
Garbage == {JNull, JInt(7), JStr(<<"x">>)}

\* lines 300-317, with the value that proJson["name"] delivered
ProtocolFromName(proJson, nameJson, errs0) ==
    LET nm == checkTypeAndSetField(nameJson, "string")
    IN  IF ~nm.ok
        THEN Ret(nullopt, Append(errs0, "field: protocol isn't of type: string"))
        ELSE LET versionStr == assignRegexField(proJson, "version", nullopt, "version")
             IN  IF ~versionStr.field.has
                 THEN Ret(nullopt, errs0 \o versionStr.errs)
                 ELSE Ret(Some([name |-> nm.value, version |-> versionStr.field.value]),
                          errs0 \o versionStr.errs)

\* The set of ways the call can end.  const operator[] with a key throws
\* type_error 305 on a value that is not an object; on an object without the
\* key it fails JSON_ASSERT in a build with assertions; in a build without
\* them it reads past the end of the map and the call goes on with what it
\* found there (status "undefined").
ProtocolParse(json, errs0, withAssertions) ==
    IF ~contains(json, "protocol")
    THEN {Ret(nullopt, errs0)}
    ELSE LET proJson == at(json, "protocol")
         IN  IF ~is_object(proJson)
             THEN {[status |-> "exception", result |-> nullopt, errors |-> errs0]}
             ELSE IF ~contains(proJson, "name")
             THEN IF withAssertions
                  THEN {[status |-> "assertion", result |-> nullopt, errors |-> errs0]}
                  ELSE {[ProtocolFromName(proJson, g, errs0) EXCEPT !.status = "undefined"] :
                          g \in Garbage}
             ELSE {ProtocolFromName(proJson, at(proJson, "name"), errs0)}

---------------------------------------------------------------------------
(* RelatedSampleIds::parse                                                 *)

\* the loop with the continue of line 350 left out: an element that fails the
\* pattern is reported and kept
RECURSIVE RelatedSampleIdsLoop_NoContinue(_, _, _, _)
RelatedSampleIdsLoop_NoContinue(items, i, samples, errs) ==
    IF i > Len(items)
    THEN [samples |-> samples, errs |-> errs]
    ELSE LET r == checkTypeAndSetField(items[i], "string")
         IN  IF ~r.ok
             THEN RelatedSampleIdsLoop_NoContinue(items, i + 1, samples,
                     Append(errs, "field: relatedSampleIds/element isn't of type: string"))
             ELSE IF ~Matches("uuid", r.value)
             THEN RelatedSampleIdsLoop_NoContinue(items, i + 1, Append(samples, r.value),
                     Append(errs, "field: relatedSampleIds/element doesn't match required pattern"))
             ELSE RelatedSampleIdsLoop_NoContinue(items, i + 1, Append(samples, r.value), errs)

\* the loop over rsJson.items(), from element i on
RECURSIVE RelatedSampleIdsLoop(_, _, _, _)
RelatedSampleIdsLoop(items, i, samples, errs) ==
    IF i > Len(items)
    THEN [samples |-> samples, errs |-> errs]
    ELSE LET r == checkTypeAndSetField(items[i], "string")
         IN  IF ~r.ok
             THEN RelatedSampleIdsLoop(items, i + 1, samples,
                     Append(errs, "field: relatedSampleIds/element isn't of type: string"))
             ELSE IF ~Matches("uuid", r.value)
             THEN RelatedSampleIdsLoop(items, i + 1, samples,
                     Append(errs, "field: relatedSampleIds/element doesn't match required pattern"))
             ELSE RelatedSampleIdsLoop(items, i + 1, Append(samples, r.value), errs)

RelatedSampleIdsParse(json, errs0) ==
    IF ~contains(json, "relatedSampleIds")
    THEN Ret(nullopt, errs0)
    ELSE IF ~is_array(at(json, "relatedSampleIds"))
    THEN Ret(nullopt, Append(errs0, "field: relatedSampleIds isn't of type: array"))
    ELSE LET l == RelatedSampleIdsLoop(at(json, "relatedSampleIds").items, 1, <<>>, errs0)
         IN  Ret(Some([samples |-> l.samples]), l.errs)

---------------------------------------------------------------------------
(* SampleId::parse, StreamId::parse                                        *)

SampleIdParse(json, errs0) ==
    IF ~contains(json, "sampleId")
    THEN Ret(nullopt, errs0)
    ELSE LET str == assignRegexField(json, "sampleId", nullopt, "uuid")
         IN  IF ~str.field.has
             THEN Ret(nullopt, errs0 \o str.errs)
             ELSE Ret(Some([id |-> str.field.value]), errs0 \o str.errs)

StreamIdParse(json, errs0) ==
    IF ~contains(json, "streamId")
    THEN Ret(nullopt, errs0)
    ELSE LET str == assignRegexField(json, "streamId", nullopt, "uuid")
         IN  IF ~str.field.has
             THEN Ret(nullopt, errs0 \o str.errs)
             ELSE Ret(Some([id |-> str.field.value]), errs0 \o str.errs)

---------------------------------------------------------------------------
(* Timing::parseSynchronization                                            *)

S_external == <<"e", "x", "t", "e", "r", "n", "a", "l">>

S_internal == <<"i", "n", "t", "e", "r", "n", "a", "l">>

S_genlock == <<"g", "e", "n", "l", "o", "c", "k">>

S_videoIn == <<"v", "i", "d", "e", "o", "I", "n">>

S_ptp == <<"p", "t", "p">>

S_ntp == <<"n", "t", "p">>

\* the early return without its emplace_back
SyncMissingRequired_Silent == [field |-> nullopt, errs |-> <<>>]

\* lines 462-466: what the call yields when a required key is not there
SyncMissingRequired ==
    [field |-> nullopt,
     errs |-> << "field: timing/synchronization is missing required fields" >>]

\* the offsets group kept although none of its members has a value
OffsetsGroup_NoCollapse(translation, rotation, lensEncoders) ==
    Some([translation |-> translation, rotation |-> rotation,
          lensEncoders |-> lensEncoders])

\* lines 516-525: the offsets group from its three members, when the
\* offsets key is there (without the key no member has a value)
OffsetsGroup(translation, rotation, lensEncoders) ==
    IF ~translation.has /\ ~rotation.has /\ ~lensEncoders.has
    THEN nullopt
    ELSE Some([translation |-> translation, rotation |-> rotation,
               lensEncoders |-> lensEncoders])

\* Yields the optional Synchronization and the errors appended.
TimingParseSynchronization(json) ==
    LET hasRequired == contains(json, "frequency") /\ contains(json, "locked")
                       /\ contains(json, "source")
    IN
    IF ~hasRequired
    THEN SyncMissingRequired
    ELSE
    LET freq == RationalParse(at(json, "frequency"))
    IN
    IF ~freq.field.has
    THEN [field |-> nullopt,
          errs |-> Append(freq.errs,
                     "field: timing/synchronization/frequency is missing required fields")]
    ELSE
    LET locked == checkTypeAndSetField(at(json, "locked"), "bool")
    IN
    IF ~locked.ok
    THEN [field |-> nullopt,
          errs |-> << "field: timing/synchronization/lock isn't of type: bool" >>]
    ELSE
    LET str == checkTypeAndSetField(at(json, "source"), "string")
    IN
    IF ~str.ok
    THEN [field |-> nullopt,
          errs |-> << "field: timing/synchronization/source isn't of type: string" >>]
    ELSE IF str.value \notin {S_genlock, S_videoIn, S_ptp, S_ntp}
    THEN [field |-> nullopt,
          errs |-> << "field: timing/synchronization/source isn't a valid enumeration" >>]
    ELSE
    LET source == CASE str.value = S_genlock -> "GEN_LOCK"
                    [] str.value = S_videoIn -> "VIDEO_IN"
                    [] str.value = S_ptp -> "PTP"
                    [] str.value = S_ntp -> "NTP"
        sub(k) == IF contains(json, k) THEN at(json, k) ELSE JObj(NoFields)
        oT == assignField(sub("offsets"), "translation", nullopt, "double", "double")
        oR == assignField(sub("offsets"), "rotation", nullopt, "double", "double")
        oL == assignField(sub("offsets"), "lensEncoders", nullopt, "double", "double")
        offsets == OffsetsGroup(oT.field, oR.field, oL.field)
        present == assignField(json, "present", nullopt, "bool", "bool")
        pD == assignField(sub("ptp"), "domain", nullopt, "uint16", "uint16")
        pO == assignField(sub("ptp"), "offset", nullopt, "double", "double")
        pM == assignRegexField(sub("ptp"), "master", nullopt, "mac")
        ptp == IF ~pD.field.has /\ ~pO.field.has /\ ~pM.field.has
               THEN nullopt
               ELSE Some([domain |-> pD.field, offset |-> pO.field, master |-> pM.field])
    IN  [field |-> Some([frequency |-> freq.field.value, locked |-> locked.value,
                         source |-> source, offsets |-> offsets,
                         present |-> present.field, ptp |-> ptp]),
         errs |-> oT.errs \o oR.errs \o oL.errs \o present.errs
                  \o pD.errs \o pO.errs \o pM.errs]

---------------------------------------------------------------------------
(* Timing::parse                                                           *)

\* The condition of line 420, str.has_value() && (str == "external" || "internal"):
\* the second operand of || is a string literal, a pointer that is never null.
ModeAccepted(str) == str.has /\ (str.value = S_external \/ TRUE)

TimingParse(json, errs0) ==
    IF ~contains(json, "timing")
    THEN Ret(nullopt, errs0)
    ELSE IF ~is_object(at(json, "timing"))
    THEN Ret(nullopt, Append(errs0, "field: timing isn't of type: object"))
    ELSE
    LET timingJson == at(json, "timing")
        frameRate == IF contains(timingJson, "frameRate")
                     THEN RationalParse(at(timingJson, "frameRate"))
                     ELSE NoField
        str == assignField(timingJson, "mode", nullopt, "string", "string")
        mode == IF ModeAccepted(str.field)
                THEN [field |-> Some(IF str.field.value = S_external
                                     THEN "EXTERNAL" ELSE "INTERNAL"),
                      errs |-> <<>>]
                ELSE [field |-> nullopt,
                      errs |-> << "field: timing/mode has an invalid string value." >>]
        recorded == IF contains(timingJson, "recordedTimestamp")
                    THEN TimestampParse(at(timingJson, "recordedTimestamp"))
                    ELSE NoField
        sample == IF contains(timingJson, "sampleTimestamp")
                  THEN TimestampParse(at(timingJson, "sampleTimestamp"))
                  ELSE NoField
        seqNo == assignField(timingJson, "sequenceNumber", nullopt, "uint16", "uint16")
        sync == IF contains(timingJson, "synchronization")
                THEN TimingParseSynchronization(at(timingJson, "synchronization"))
                ELSE NoField
        timecode == IF contains(timingJson, "timecode")
                    THEN TimecodeParse(at(timingJson, "timecode"))
                    ELSE NoField
    IN  Ret(Some([frameRate |-> frameRate.field, mode |-> mode.field,
                  recordedTimestamp |-> recorded.field,
                  sampleTimestamp |-> sample.field,
                  sequenceNumber |-> seqNo.field,
                  synchronization |-> sync.field,
                  timecode |-> timecode.field]),
            errs0 \o frameRate.errs \o str.errs \o mode.errs \o recorded.errs
                  \o sample.errs \o seqNo.errs \o sync.errs \o timecode.errs)

---------------------------------------------------------------------------
(* Tracker::parse                                                          *)

TrackerParse(json, errs0) ==
    IF ~contains(json, "tracker")
       /\ (~contains(json, "static") \/ ~contains(at(json, "static"), "tracker"))
    THEN Ret(nullopt, errs0)
    ELSE
    LET hasStatic == contains(json, "static") /\ contains(at(json, "static"), "tracker")
        sJson == IF hasStatic THEN at(at(json, "static"), "tracker") ELSE JObj(NoFields)
        fw == assignField(sJson, "firmwareVersion", nullopt, "string", "string")
        mk == assignField(sJson, "make", nullopt, "string", "string")
        md == assignField(sJson, "model", nullopt, "string", "string")
        sn == assignField(sJson, "serialNumber", nullopt, "string", "string")
        tkrJson == IF contains(json, "tracker") THEN at(json, "tracker") ELSE JObj(NoFields)
        notes == assignField(tkrJson, "notes", nullopt, "string", "string")
        recording == assignField(tkrJson, "recording", nullopt, "bool", "boolean")
        slate == assignField(tkrJson, "slate", nullopt, "string", "string")
        stat == assignField(tkrJson, "status", nullopt, "string", "string")
    IN  Ret(Some([firmwareVersion |-> fw.field, make |-> mk.field, model |-> md.field,
                  serialNumber |-> sn.field, notes |-> notes.field,
                  recording |-> recording.field, slate |-> slate.field,
                  status |-> stat.field]),
            errs0 \o fw.errs \o mk.errs \o md.errs \o sn.errs \o notes.errs
                  \o recording.errs \o slate.errs \o stat.errs)

---------------------------------------------------------------------------
(* Transforms::parse                                                       *)

\* the loop over tfsJson.items(), from element i on
RECURSIVE TransformsLoop(_, _, _, _)
TransformsLoop(items, i, transforms, errs) ==
    IF i > Len(items)
    THEN [transforms |-> transforms, errs |-> errs]
    ELSE LET tf == TransformParse(items[i])
         IN  IF tf.field.has
             THEN TransformsLoop(items, i + 1, Append(transforms, tf.field.value),
                                 errs \o tf.errs)
             ELSE TransformsLoop(items, i + 1, transforms, errs \o tf.errs)

TransformsParse(json, errs0) ==
    IF ~contains(json, "transforms")
    THEN Ret(nullopt, errs0)
    ELSE IF ~is_array(at(json, "transforms"))
    THEN Ret(nullopt, Append(errs0, "Transforms is not an array."))
    ELSE LET l == TransformsLoop(at(json, "transforms").items, 1, <<>>, errs0)
         IN  Ret(Some([transforms |-> l.transforms]), l.errs)

---------------------------------------------------------------------------
(* Documents handed to the decoders.                                       *)

S_x == <<"x">>

S_OpenTrackIO == <<"O", "p", "e", "n", "T", "r", "a", "c", "k", "I", "O">>

Uuid1 == UuidPrefix \o <<"1", "2", "3", "4", "5", "6", "7", "8", "-", "1", "2", "3", "4", "-", "1", "2", "3", "4", "-", "1", "2", "3", "4", "-", "1", "2", "3", "4", "5", "6", "7", "8", "9", "a", "b", "c">>

Uuid2 == UuidPrefix \o <<"0", "a", "1", "b", "2", "c", "3", "d", "-", "4", "e", "5", "f", "-", "6", "a", "7", "b", "-", "8", "c", "9", "d", "-", "0", "e", "1", "f", "2", "a", "3", "b", "4", "c", "5", "d">>

\* not UUIDs: free text, an upper-case digit, a group one digit short
S_badId == <<"b", "a", "d", "-", "i", "d">>

S_upperUuid == UuidPrefix \o <<"1", "2", "3", "4", "5", "6", "7", "8", "-", "1", "2", "3", "4", "-", "1", "2", "3", "4", "-", "1", "2", "3", "4", "-", "1", "2", "3", "4", "5", "6", "7", "8", "9", "A", "B", "C">>

S_shortUuid == UuidPrefix \o <<"1", "2", "3", "4", "5", "6", "7", "-", "1", "2", "3", "4", "-", "1", "2", "3", "4", "-", "1", "2", "3", "4", "-", "1", "2", "3", "4", "5", "6", "7", "8", "9", "a", "b", "c">>

VersionStrings ==
    {<<"1", ".", "0", ".", "0">>, <<"1", "2", ".", "3", ".", "4", "5">>, <<"1", ".", "0">>, <<"1", "x", "0", "x", "0">>,
     <<"1", "0", "2", "0", "3">>, <<"a", ".", "b", ".", "c">>, <<"1", ".", "0", ".", "0", ".", "0">>, <<"1", ".", ".", "0">>,
     <<".", "1", ".", "0">>, <<>>}

S_mac == <<"0", "0", ":", "1", "A", ":", "2", "B", ":", "3", "C", ":", "4", "D", ":", "5", "E">>

S_lowerMac == <<"0", "0", ":", "1", "a", ":", "2", "b", ":", "3", "c", ":", "4", "d", ":", "5", "e">>

\* "the key is not there", used only to build objects
Missing == [kind |-> "missing"]

Field(k, v) == IF v.kind = "missing" THEN NoFields ELSE (k :> v)

Top(k, v) == JObj(Field(k, v))

Static(k, v) == JObj("static" :> JObj(Field(k, v)))

NonObjects == {JNull, JBool(TRUE), JInt(7), JFloat(15), JStr(S_x), JArr(<<>>)}

NonArrays == {JNull, JBool(TRUE), JInt(7), JStr(S_x), JObj(NoFields)}

GoodRational == JObj(("num" :> JInt(24)) @@ ("denom" :> JInt(1)))

BadRational == JObj("num" :> JInt(24))

GoodDimensions == JObj(("width" :> JInt(36)) @@ ("height" :> JFloat(245)))

GoodTimestamp == JObj(("seconds" :> JInt(3)) @@ ("nanoseconds" :> JInt(500)))

GoodTimecode == JObj(("hours" :> JInt(1)) @@ ("minutes" :> JInt(2))
                     @@ ("seconds" :> JInt(3)) @@ ("frames" :> JInt(4)))

BadTimecode == JObj("hours" :> JInt(1))

ShutterAngles == {JInt(0), JInt(1), JInt(180000), JInt(SHUTTER_ANGLE_MAX),
                  JInt(SHUTTER_ANGLE_MAX + 1), JInt(400000)}

CameraSections ==
    NonObjects
    \cup {JObj(Field("shutterAngle", sa) @@ Field("isoSpeed", iso) @@ Field("make", mk)
               @@ Field("fdlLink", fdl)) :
            sa \in ShutterAngles \cup {Missing, JStr(S_x)},
            iso \in {Missing, JInt(800), JStr(S_x)},
            mk \in {Missing, JStr(S_x), JInt(7)},
            fdl \in {Missing, JStr(Uuid1), JStr(S_badId)}}
    \cup {JObj(k :> v) :
            k \in {"activeSensorPhysicalDimensions", "activeSensorResolution"},
            v \in {GoodDimensions, JStr(S_x)}}
    \cup {JObj(k :> v) :
            k \in {"anamorphicSqueeze", "captureFrameRate"},
            v \in {GoodRational, BadRational}}
    \cup {JObj(k :> v) :
            k \in {"firmwareVersion", "label", "model", "serialNumber"},
            v \in {JStr(S_x), JInt(7)}}

DurationSections ==
    NonObjects
    \cup {JObj(Field("num", n) @@ Field("denom", d)) :
            n \in {Missing, JInt(1), JInt(25), JInt(0 - 1), JStr(S_x)},
            d \in {Missing, JInt(1), JInt(1001), JInt(0 - 1), JStr(S_x)}}

GlobalStageSections ==
    NonObjects
    \cup {JObj(Field("E", e) @@ Field("N", n) @@ Field("U", u) @@ Field("lat0", la)
               @@ Field("lon0", lo) @@ Field("h0", h)) :
            e \in {Missing, JInt(100), JStr(S_x)},
            n \in {Missing, JFloat(205), JStr(S_x)},
            u \in {Missing, JInt(3)},
            la \in {Missing, JFloat(515)},
            lo \in {Missing, JInt(0)},
            h \in {Missing, JInt(12), JBool(TRUE)}}

GoodVector == JArr(<<JInt(1), JFloat(25)>>)

BadVector == JArr(<<JInt(1), JStr(S_x)>>)

RadialGroups ==
    {JStr(S_x), JObj(NoFields)}
    \cup {JObj(Field("radial", r) @@ Field("tangential", t)) :
            r \in {Missing, GoodVector, BadVector, JInt(1)},
            t \in {Missing, GoodVector, BadVector}}

ShiftGroups ==
    {JStr(S_x)}
    \cup {JObj(Field("x", x) @@ Field("y", y)) :
            x \in {Missing, JFloat(5), JStr(S_x)},
            y \in {Missing, JInt(2), JStr(S_x)}}

PupilGroups ==
    {JStr(S_x)}
    \cup {JObj(Field("num", n) @@ Field("denom", d)) :
            n \in {Missing, JInt(0 - 3), JStr(S_x)},
            d \in {Missing, JInt(100), JFloat(15)}}

FalloffGroups ==
    {JStr(S_x)}
    \cup {JObj(Field("a1", a) @@ Field("a2", b) @@ Field("a3", c)) :
            a \in {Missing, JFloat(11), JStr(S_x)},
            b \in {Missing, JFloat(12), JStr(S_x)},
            c \in {Missing, JFloat(13)}}

LensSections ==
    NonObjects
    \cup {JObj(NoFields)}
    \cup {JObj("custom" :> v) : v \in {GoodVector, BadVector, JStr(S_x), JArr(<<>>)}}
    \cup {JObj(k :> v) : k \in {"distortion", "undistortion"}, v \in RadialGroups}
    \cup {JObj(k :> v) : k \in {"distortionShift", "perspectiveShift"}, v \in ShiftGroups}
    \cup {JObj("entrancePupilOffset" :> v) : v \in PupilGroups}
    \cup {JObj("exposureFalloff" :> v) : v \in FalloffGroups}
    \cup {JObj(k :> v) :
            k \in {"distortionOverscan", "distortionScale", "encoders", "focalLength",
                   "rawEncoders"},
            v \in {JInt(2), JFloat(15), JStr(S_x)}}
    \cup {JObj(k :> v) :
            k \in {"fStop", "focusDistance", "tStop"},
            v \in {JInt(4), JInt(0 - 1), JFloat(15)}}

StaticLensSections ==
    NonObjects
    \cup {JObj(NoFields)}
    \cup {JObj(k :> v) :
            k \in {"firmwareVersion", "make", "model", "serialNumber"},
            v \in {JStr(S_x), JInt(7)}}
    \cup {JObj("nominalFocalLength" :> v) : v \in {JInt(35), JFloat(505), JStr(S_x)}}

ProtocolSections ==
    NonObjects
    \cup {JObj(Field("name", n) @@ Field("version", v)) :
            n \in {Missing, JStr(S_OpenTrackIO), JInt(7)},
            v \in {Missing, JInt(1)} \cup {JStr(s) : s \in VersionStrings}}

IdElements == {JStr(Uuid1), JStr(Uuid2), JStr(S_badId), JStr(S_upperUuid), JInt(5)}

RECURSIVE SeqsUpTo(_, _)
SeqsUpTo(S, n) ==
    IF n = 0
    THEN {<<>>}
    ELSE LET shorter == SeqsUpTo(S, n - 1)
         IN  shorter \cup {Append(q, e) : q \in shorter, e \in S}

RelatedSampleIdsSections == NonArrays \cup {JArr(q) : q \in SeqsUpTo(IdElements, MaxArr)}

IdSections == NonObjects \cup {JObj(NoFields)}
              \cup {JStr(Uuid1), JStr(Uuid2), JStr(S_badId), JStr(S_upperUuid),
                    JStr(S_shortUuid), JStr(<<>>)}

SyncRequired ==
    {JObj(Field("frequency", f) @@ Field("locked", l) @@ Field("source", s)) :
        f \in {Missing, GoodRational, BadRational},
        l \in {Missing, JBool(TRUE), JInt(1)},
        s \in {Missing, JStr(S_genlock), JStr(S_videoIn), JStr(S_ptp), JStr(S_ntp),
               JStr(S_x), JInt(7)}}

ValidRequired == ("frequency" :> GoodRational) @@ ("locked" :> JBool(FALSE))
                 @@ ("source" :> JStr(S_ptp))

OffsetsGroups ==
    {Missing, JStr(S_x), JObj(NoFields), JObj("translation" :> JFloat(5)),
     JObj("rotation" :> JStr(S_x)),
     JObj(("rotation" :> JInt(1)) @@ ("lensEncoders" :> JStr(S_x)))}

PtpGroups ==
    {Missing, JStr(S_x), JObj(NoFields), JObj("domain" :> JInt(1)),
     JObj("domain" :> JInt(UINT16_MAX + 1)), JObj("offset" :> JFloat(5)),
     JObj("master" :> JStr(S_mac)), JObj("master" :> JStr(S_lowerMac)),
     JObj(("domain" :> JStr(S_x)) @@ ("master" :> JStr(S_mac)))}

SyncOptional ==
    {JObj(ValidRequired @@ Field("offsets", o) @@ Field("present", p) @@ Field("ptp", t)) :
        o \in OffsetsGroups, p \in {Missing, JBool(TRUE), JInt(1)}, t \in PtpGroups}

\* synchronization sections without one of the required keys
SyncIncomplete ==
    {JStr(S_x), JObj(NoFields),
     JObj(("locked" :> JBool(TRUE)) @@ ("source" :> JStr(S_genlock))),
     JObj(("frequency" :> GoodRational) @@ ("source" :> JStr(S_genlock))),
     JObj(("frequency" :> GoodRational) @@ ("locked" :> JBool(TRUE))),
     JObj(("frequency" :> BadRational) @@ ("present" :> JInt(1)))}

TimingSections ==
    NonObjects
    \cup {JObj(Field("mode", m) @@ Field("frameRate", fr) @@ Field("sequenceNumber", sq)
               @@ Field("timecode", tc) @@ Field("synchronization", sy)) :
            m \in {Missing, JStr(S_external), JStr(S_internal), JStr(S_x), JStr(<<>>),
                   JInt(7)},
            fr \in {Missing, GoodRational, BadRational},
            sq \in {Missing, JInt(5), JInt(UINT16_MAX + 1)},
            tc \in {Missing, GoodTimecode, BadTimecode},
            sy \in {Missing, JObj(ValidRequired)} \cup SyncIncomplete}
    \cup {JObj(("mode" :> JStr(S_internal)) @@ ("synchronization" :> sy)) :
            sy \in SyncRequired \cup SyncOptional}
    \cup {JObj(k :> v) :
            k \in {"recordedTimestamp", "sampleTimestamp"},
            v \in {GoodTimestamp, JStr(S_x)}}

TrackerSections ==
    NonObjects
    \cup {JObj(NoFields)}
    \cup {JObj(Field("notes", n) @@ Field("recording", r) @@ Field("slate", sl)
               @@ Field("status", st)) :
            n \in {Missing, JStr(S_x), JInt(7)},
            r \in {Missing, JBool(TRUE), JStr(S_x)},
            sl \in {Missing, JStr(S_x)},
            st \in {Missing, JStr(S_x), JNull}}

StaticTrackerSections ==
    NonObjects
    \cup {JObj(NoFields)}
    \cup {JObj(k :> v) :
            k \in {"firmwareVersion", "make", "model", "serialNumber"},
            v \in {JStr(S_x), JInt(7)}}

TransformElements == {JObj("id" :> JStr(S_x)), JObj(NoFields), JInt(7)}

TransformsSections == NonArrays \cup {JArr(q) : q \in SeqsUpTo(TransformElements, MaxArr)}

\* a frame that carries every section
FullFrame ==
    JObj(("static" :> JObj(("camera" :> JObj("shutterAngle" :> JInt(180000)))
                           @@ ("duration" :> JObj(("num" :> JInt(1)) @@ ("denom" :> JInt(25))))
                           @@ ("lens" :> JObj("make" :> JStr(S_x)))
                           @@ ("tracker" :> JObj("make" :> JStr(S_x)))))
         @@ ("globalStage" :> JObj([k \in {"E", "N", "U", "lat0", "lon0", "h0"} |-> JInt(1)]))
         @@ ("lens" :> JObj("fStop" :> JInt(4)))
         @@ ("protocol" :> JObj(("name" :> JStr(S_OpenTrackIO))
                                @@ ("version" :> JStr(<<"1", ".", "0", ".", "0">>))))
         @@ ("relatedSampleIds" :> JArr(<<JStr(Uuid1)>>))
         @@ ("sampleId" :> JStr(Uuid1))
         @@ ("streamId" :> JStr(Uuid2))
         @@ ("timing" :> JObj(("mode" :> JStr(S_external))
                              @@ ("synchronization" :> JObj(ValidRequired))))
         @@ ("tracker" :> JObj("recording" :> JBool(TRUE)))
         @@ ("transforms" :> JArr(<<JObj("id" :> JStr(S_x))>>)))

\* the same frame with every section of the wrong kind
BrokenFrame ==
    JObj([k \in {"static", "globalStage", "lens", "protocol", "relatedSampleIds",
                 "sampleId", "streamId", "timing", "tracker", "transforms"} |-> JInt(7)])

Documents ==
    {JObj(NoFields), JNull, JArr(<<>>), FullFrame, BrokenFrame}
    \cup {Top("static", v) : v \in NonObjects \cup {JObj(NoFields)}}
    \cup {Static("camera", v) : v \in CameraSections}
    \cup {Static("duration", v) : v \in DurationSections}
    \cup {Top("globalStage", v) : v \in GlobalStageSections}
    \cup {Top("lens", v) : v \in LensSections}
    \cup {Static("lens", v) : v \in StaticLensSections}
    \cup {JObj(("lens" :> l) @@ ("static" :> JObj("lens" :> s))) :
            l \in {JStr(S_x), JObj("fStop" :> JInt(4)), JObj("fStop" :> JFloat(15))},
            s \in {JInt(7), JObj("make" :> JStr(S_x)), JObj("make" :> JInt(7))}}
    \cup {Top("protocol", v) : v \in ProtocolSections}
    \cup {Top("relatedSampleIds", v) : v \in RelatedSampleIdsSections}
    \cup {Top("sampleId", v) : v \in IdSections}
    \cup {Top("streamId", v) : v \in IdSections}
    \cup {Top("timing", v) : v \in TimingSections}
    \cup {Top("tracker", v) : v \in TrackerSections}
    \cup {Static("tracker", v) : v \in StaticTrackerSections}
    \cup {JObj(("tracker" :> t) @@ ("static" :> JObj("tracker" :> s))) :
            t \in {JStr(S_x), JObj("notes" :> JStr(S_x)), JObj("notes" :> JInt(7))},
            s \in {JInt(7), JObj("make" :> JStr(S_x)), JObj("make" :> JInt(7))}}
    \cup {Top("transforms", v) : v \in TransformsSections}

---------------------------------------------------------------------------
(* The caller: any decoder, in any order, on the same document and the     *)
(* same error list or on a fresh one.  A call that ends in an exception   *)
(* or a failed assertion ends the run.                                     *)

Init ==
    /\ doc \in Documents
    /\ errors = <<>>
    /\ before = <<>>
    /\ called = "none"
    /\ status = "idle"
    /\ result = nullopt
    /\ calls = 0
    /\ firstCall = [name |-> "none"]
    /\ assertions \in BOOLEAN

\* A call can be made while no earlier call has ended the run.  A call whose
\* behaviour was undefined came back to the caller, which goes on.
Callable == status \in {"idle", "returned", "undefined"} /\ calls < MaxCalls

\* The decoder name was called and ended with outcome out; before keeps the
\* error list as it was when the call began, firstCall the outcome of the first
\* call of the run (made on the empty error list of Init).
Finish(name, out) ==
    /\ called' = name
    /\ before' = errors
    /\ status' = out.status
    /\ result' = out.result
    /\ errors' = out.errors
    /\ calls' = calls + 1
    /\ firstCall' = IF firstCall.name = "none"
                  THEN [name |-> name, out |-> out]
                  ELSE firstCall
    /\ UNCHANGED <<doc, assertions>>

ParseCamera ==
    /\ Callable
    /\ Finish("Camera", CameraParse(doc, errors))

ParseDuration ==
    /\ Callable
    /\ Finish("Duration", DurationParse(doc, errors))

ParseGlobalStage ==
    /\ Callable
    /\ Finish("GlobalStage", GlobalStageParse(doc, errors))

ParseLens ==
    /\ Callable
    /\ Finish("Lens", LensParse(doc, errors))

ParseProtocol ==
    /\ Callable
    /\ \E out \in ProtocolParse(doc, errors, assertions) : Finish("Protocol", out)

ParseRelatedSampleIds ==
    /\ Callable
    /\ Finish("RelatedSampleIds", RelatedSampleIdsParse(doc, errors))

ParseSampleId ==
    /\ Callable
    /\ Finish("SampleId", SampleIdParse(doc, errors))

ParseStreamId ==
    /\ Callable
    /\ Finish("StreamId", StreamIdParse(doc, errors))

ParseTiming ==
    /\ Callable
    /\ Finish("Timing", TimingParse(doc, errors))

ParseTracker ==
    /\ Callable
    /\ Finish("Tracker", TrackerParse(doc, errors))

ParseTransforms ==
    /\ Callable
    /\ Finish("Transforms", TransformsParse(doc, errors))

\* The caller hands the next call a fresh, empty error list.
NewErrorSink ==
    /\ status \in {"returned", "undefined"}
    /\ errors' = <<>>
    /\ before' = <<>>
    /\ called' = "none"
    /\ status' = "idle"
    /\ result' = nullopt
    /\ UNCHANGED <<doc, calls, firstCall, assertions>>

Next ==
    \/ NewErrorSink
    \/ ParseCamera
    \/ ParseDuration
    \/ ParseGlobalStage
    \/ ParseLens
    \/ ParseProtocol
    \/ ParseRelatedSampleIds
    \/ ParseSampleId
    \/ ParseStreamId
    \/ ParseTiming
    \/ ParseTracker
    \/ ParseTransforms

Spec == Init /\ [][Next]_vars

---------------------------------------------------------------------------
(* What the last call did.                                                 *)

\* the errors the last call appended
appended == SubSeq(errors, Len(before) + 1, Len(errors))

TypeInv ==
    /\ status \in {"idle", "returned", "exception", "assertion", "undefined"}
    /\ Len(before) <= Len(errors)
    /\ SubSeq(errors, 1, Len(before)) = before
    /\ calls <= MaxCalls

---------------------------------------------------------------------------
(* Reading the document by path, for the statements below.                 *)

RECURSIVE PathValue(_, _)
PathValue(json, path) ==
    IF path = <<>>
    THEN json
    ELSE IF json.kind = "object" /\ Head(path) \in DOMAIN json.fields
    THEN PathValue(json.fields[Head(path)], Tail(path))
    ELSE Missing

Present(path) == PathValue(doc, path).kind # "missing"

Decoders == {"Camera", "Duration", "GlobalStage", "Lens", "Protocol", "RelatedSampleIds",
             "SampleId", "StreamId", "Timing", "Tracker", "Transforms"}

\* the section key(s) each decoder looks for
Anchors(name) ==
    CASE name = "Camera" -> {<<"static", "camera">>}
      [] name = "Duration" -> {<<"static", "duration">>}
      [] name = "GlobalStage" -> {<<"globalStage">>}
      [] name = "Lens" -> {<<"lens">>, <<"static", "lens">>}
      [] name = "Protocol" -> {<<"protocol">>}
      [] name = "RelatedSampleIds" -> {<<"relatedSampleIds">>}
      [] name = "SampleId" -> {<<"sampleId">>}
      [] name = "StreamId" -> {<<"streamId">>}
      [] name = "Timing" -> {<<"timing">>}
      [] name = "Tracker" -> {<<"tracker">>, <<"static", "tracker">>}
      [] name = "Transforms" -> {<<"transforms">>}

AnchorPresent(name) == \E p \in Anchors(name) : Present(p)

Section(path) == PathValue(doc, path)

---------------------------------------------------------------------------
(* C1: every decoder call, on every document, ends by returning a value or *)
(* absent: none ends in an exception or a failed assertion.                *)
C1_NeverAborts == called \in Decoders => status = "returned"

(* C2: when the document lacks the anchor key(s) of the decoder called,    *)
(* the decoder returns absent and the error list is what it was before.    *)
C2_AbsentSectionSilent ==
    called \in Decoders /\ ~AnchorPresent(called) =>
        status = "returned" /\ ~result.has /\ errors = before

\* Camera called on a frame with a static section but no camera in it, after
\* an earlier call has left errors in the list.
C2_Witness ==
    /\ called = "Camera"
    /\ Present(<<"static">>) /\ ~Present(<<"static", "camera">>)
    /\ before # <<>>
    /\ status = "returned" /\ ~result.has /\ errors = before

(* C3: when the section key of the decoder called is present and the       *)
(* decoder returns absent, the call appended at least one error.           *)
C3_AbsentHasDiagnostic ==
    called \in Decoders /\ status = "returned" /\ AnchorPresent(called) /\ ~result.has =>
        Len(appended) >= 1

(* C4: Duration with an object section: num and denom both valid uint32    *)
(* gives a Duration with that numerator and denominator and no error; a    *)
(* missing or invalid num or denom gives absent and an error.              *)
ValidUint32(j) == j.kind = "integer" /\ j.n >= 0

C4_DurationContract ==
    called = "Duration" /\ Section(<<"static", "duration">>).kind = "object" =>
        LET num == Section(<<"static", "duration", "num">>)
            denom == Section(<<"static", "duration", "denom">>)
        IN  IF ValidUint32(num) /\ ValidUint32(denom)
            THEN /\ result.has
                 /\ result.value.numerator = num.n
                 /\ result.value.denominator = denom.n
                 /\ appended = <<>>
            ELSE ~result.has /\ Len(appended) >= 1

(* C5: for a timing object whose mode is a string, the decoded mode is     *)
(* EXTERNAL iff the string is "external" and INTERNAL iff it is            *)
(* "internal"; any other string leaves mode absent and appends an error,   *)
(* and the Timing entity is still returned.                                *)
ModeError == "field: timing/mode has an invalid string value."

Count(seq, e) == Cardinality({i \in 1..Len(seq) : seq[i] = e})

C5_ModeStrictEnum ==
    called = "Timing" /\ Section(<<"timing">>).kind = "object"
    /\ Section(<<"timing", "mode">>).kind = "string" =>
        LET s == Section(<<"timing", "mode">>).s
            m == result.value.mode
        IN  /\ result.has
            /\ (m.has /\ m.value = "EXTERNAL") <=> (s = S_external)
            /\ (m.has /\ m.value = "INTERNAL") <=> (s = S_internal)
            /\ s \notin {S_external, S_internal} => ~m.has /\ Count(appended, ModeError) >= 1

(* C6: for a camera section whose shutterAngle is an integer v, the Camera *)
(* is returned; it keeps shutterAngle = v iff 1 <= v <= 360000, and for v  *)
(* outside that range shutterAngle is absent and exactly one range error   *)
(* naming shutterAngle is appended.                                        *)
RangeError == "field: shutterAngle is outside the expected range 1 - 360000."

C6_ShutterAngleRange ==
    called = "Camera" /\ Section(<<"static", "camera">>).kind = "object"
    /\ Section(<<"static", "camera", "shutterAngle">>).kind = "integer" =>
        LET v == Section(<<"static", "camera", "shutterAngle">>).n
            sa == result.value.shutterAngle
        IN  /\ result.has
            /\ IF 1 <= v /\ v <= 360000
               THEN sa.has /\ sa.value = v /\ Count(appended, RangeError) = 0
               ELSE ~sa.has /\ Count(appended, RangeError) = 1

(* C7: for a protocol object with a string name and a string version that  *)
(* is not three non-negative decimal integers separated by literal dots,   *)
(* Protocol decode returns absent and appends exactly one pattern-mismatch *)
(* error; a Protocol value is returned only for a version of that form.    *)
IsThreeDottedIntegers(s) ==
    \E i \in 1..Len(s) : \E j \in 1..Len(s) :
        /\ 1 < i /\ i + 1 < j /\ j < Len(s)
        /\ s[i] = "." /\ s[j] = "."
        /\ \A k \in (1..Len(s)) \ {i, j} : s[k] \in Digit

VersionPatternError == "field: version doesn't match required pattern"

C7_VersionPattern ==
    called = "Protocol" /\ Section(<<"protocol">>).kind = "object"
    /\ Section(<<"protocol", "name">>).kind = "string"
    /\ Section(<<"protocol", "version">>).kind = "string" =>
        LET v == Section(<<"protocol", "version">>).s
        IN  /\ status = "returned"
            /\ ~IsThreeDottedIntegers(v) => ~result.has /\ appended = <<VersionPatternError>>
            /\ result.has => IsThreeDottedIntegers(v)

(* C8: for every array relatedSampleIds the decoder returns a value whose  *)
(* sequence is the sub-sequence, in order, of the elements that are        *)
(* strings of the UUID form, and it appends one error per other element.   *)
IsUuidElement(e) ==
    /\ e.kind = "string"
    /\ Len(e.s) = 45
    /\ \A i \in 1..9 : e.s[i] = UuidPrefix[i]
    /\ \A i \in 10..45 : IF i \in {18, 23, 28, 33}
                         THEN e.s[i] = "-"
                         ELSE e.s[i] \in {"0", "1", "2", "3", "4", "5", "6", "7", "8", "9",
                                          "a", "b", "c", "d", "e", "f"}

C8_RelatedSampleIdsFilter ==
    called = "RelatedSampleIds" /\ Section(<<"relatedSampleIds">>).kind = "array" =>
        LET items == Section(<<"relatedSampleIds">>).items
            kept == SelectSeq(items, IsUuidElement)
        IN  /\ status = "returned"
            /\ result.has
            /\ Len(result.value.samples) = Len(kept)
            /\ \A i \in 1..Len(kept) : result.value.samples[i] = kept[i].s
            /\ Len(appended) = Len(items) - Len(kept)

\* an array with a valid, an invalid and again a valid element
C8_Witness ==
    /\ called = "RelatedSampleIds"
    /\ Section(<<"relatedSampleIds">>).kind = "array"
    /\ Len(Section(<<"relatedSampleIds">>).items) = 3
    /\ result.has
    /\ result.value.samples = <<Uuid1, Uuid2>>
    /\ Len(appended) = 1

(* C9: for a timing object whose synchronization section lacks one of the  *)
(* required keys, Synchronization is absent, exactly one                   *)
(* missing-required-field error is appended for it, and Timing returns a   *)
(* value whose other fields, and whose other errors, are what the same     *)
(* timing object without the synchronization key gives.                    *)
SyncMissingError == "field: timing/synchronization is missing required fields"

RemoveAt(seq, i) == SubSeq(seq, 1, i - 1) \o SubSeq(seq, i + 1, Len(seq))

WithoutSynchronization(json) ==
    LET t == json.fields["timing"].fields
    IN  [json EXCEPT !.fields["timing"] =
            JObj([k \in (DOMAIN t) \ {"synchronization"} |-> t[k]])]

LacksRequiredKey(sync) ==
    \E k \in {"frequency", "locked", "source"} : PathValue(sync, <<k>>).kind = "missing"

C9_Precondition ==
    /\ called = "Timing"
    /\ Section(<<"timing">>).kind = "object"
    /\ Present(<<"timing", "synchronization">>)
    /\ LacksRequiredKey(Section(<<"timing", "synchronization">>))

C9_SyncMissingRequired ==
    C9_Precondition =>
        LET ref == TimingParse(WithoutSynchronization(doc), before)
        IN  /\ status = "returned"
            /\ result.has
            /\ ~result.value.synchronization.has
            /\ result.value = ref.result.value
            /\ Count(appended, SyncMissingError) = 1
            /\ \E i \in 1..Len(appended) :
                    /\ appended[i] = SyncMissingError
                    /\ RemoveAt(appended, i)
                         = SubSeq(ref.errors, Len(before) + 1, Len(ref.errors))

\* synchronization without locked, next to a valid mode, frameRate and timecode
C9_Witness ==
    /\ C9_Precondition
    /\ Present(<<"timing", "synchronization", "frequency">>)
    /\ Present(<<"timing", "synchronization", "source">>)
    /\ result.has
    /\ ~result.value.synchronization.has
    /\ result.value.mode.has /\ result.value.frameRate.has /\ result.value.timecode.has
    /\ appended = <<SyncMissingError>>

(* C10: when the section key of a container decoder is present and its     *)
(* value is not of the container kind (object; array for relatedSampleIds  *)
(* and transforms), the decoder appends exactly one error and returns      *)
(* absent; likewise timing.synchronization inside a timing object.         *)
ContainerKind(name) ==
    IF name \in {"RelatedSampleIds", "Transforms"} THEN "array" ELSE "object"

ContainerDecoders == Decoders \ {"SampleId", "StreamId"}

C10_WrongKindSection ==
    /\ called \in ContainerDecoders
       /\ (\E p \in Anchors(called) :
              Present(p) /\ Section(p).kind # ContainerKind(called)) =>
            status = "returned" /\ ~result.has /\ Len(appended) = 1
    /\ called = "Timing" /\ Section(<<"timing">>).kind = "object"
       /\ Present(<<"timing", "synchronization">>)
       /\ Section(<<"timing", "synchronization">>).kind # "object" =>
            /\ result.has
            /\ ~result.value.synchronization.has
            /\ Count(appended, SyncMissingError) = 1

C11_DeterministicWhenDefined ==
    called \in Decoders /\ called = firstCall.name /\ before = <<>>
    /\ status # "undefined" /\ firstCall.out.status # "undefined" =>
        /\ status = firstCall.out.status
        /\ result = firstCall.out.result
        /\ errors = firstCall.out.errors

\* a second call of Timing on a fresh list, both calls leaving errors
C11_SecondCallReached ==
    /\ called = "Timing" /\ firstCall.name = "Timing" /\ calls = 2
    /\ before = <<>> /\ errors # <<>> /\ result.has

---------------------------------------------------------------------------
(* The keys of the document each error message of a decoder is about.      *)

TypeMessage(k, t) == "field: " \o k \o " isn't of type: " \o t

PatternMessage(k) == "field: " \o k \o " doesn't match required pattern"

RationalError == "field: rational is missing required fields"

\* an entry: the key at path can give the messages msgs; top says whether the
\* key is decoded into the field of the same name of the returned entity
Source(path, msgs, top) == [path |-> path, msgs |-> msgs, top |-> top]

Typed(base, keys, t) == {Source(Append(base, k), {TypeMessage(k, t)}, Len(base) <= 2) :
                            k \in keys}

CameraSources ==
    LET b == <<"static", "camera">>
    IN  {Source(b, {"field: camera isn't of type: object"}, FALSE)}
        \cup Typed(b, {"firmwareVersion", "label", "make", "model", "serialNumber"}, "string")
        \cup {Source(Append(b, k), {"field: dimensions is missing required fields"}, TRUE) :
                k \in {"activeSensorPhysicalDimensions", "activeSensorResolution"}}
        \cup {Source(Append(b, k), {RationalError}, TRUE) :
                k \in {"anamorphicSqueeze", "captureFrameRate"}}
        \cup {Source(Append(b, "fdlLink"),
                     {TypeMessage("fdlLink", "string"), PatternMessage("fdlLink")}, TRUE),
              Source(Append(b, "isoSpeed"), {TypeMessage("isoSpeed", "integer")}, TRUE),
              Source(Append(b, "shutterAngle"),
                     {TypeMessage("shutterAngle", "integer"), RangeError}, TRUE)}

\* an error about required fields is about the section that lacks them
DurationSources ==
    LET b == <<"static", "duration">>
    IN  {Source(b, {"field: duration isn't of type: object",
                    "field: duration is missing required fields"}, FALSE),
         Source(Append(b, "num"), {TypeMessage("num", "uint32")}, FALSE),
         Source(Append(b, "denom"), {TypeMessage("denom", "uint32")}, FALSE)}

GlobalStageSources ==
    LET b == <<"globalStage">>
        keys == {GsFields[i] : i \in 1..Len(GsFields)}
    IN  {Source(b, {"field: globalStage isn't of type: object"}
                   \cup {"field: globalStage is missing require field: " \o k : k \in keys},
                FALSE)}
        \cup {Source(Append(b, k), {"field: globalStage/" \o k \o " isn't a number"}, FALSE) :
                k \in keys}

LensSources ==
    LET st == <<"static", "lens">>
        b == <<"lens">>
        group(g, keys, t) == {Source(b \o <<g, k>>, {TypeMessage(k, t)}, FALSE) : k \in keys}
    IN  Typed(st, {"firmwareVersion", "make", "model", "serialNumber"}, "string")
        \cup {Source(Append(st, "nominalFocalLength"),
                     {TypeMessage("nominalFocalLength", "double")}, TRUE)}
        \cup {Source(Append(b, "custom"),
                     {"field: lens/custom value isn't of type: double"}, TRUE)}
        \cup {Source(Append(b, k), {TypeMessage(k, "double")}, TRUE) :
                k \in {"distortionOverscan", "distortionScale", "encoders", "focalLength",
                       "rawEncoders"}}
        \cup {Source(Append(b, k), {TypeMessage(k, "uint32")}, TRUE) :
                k \in {"fStop", "focusDistance", "tStop"}}
        \cup {Source(Append(b, k), {}, TRUE) :
                k \in {"distortion", "distortionShift", "entrancePupilOffset",
                       "exposureFalloff", "perspectiveShift", "undistortion"}}
        \cup group("distortion", {"radial", "tangential"}, "double")
        \cup group("undistortion", {"radial", "tangential"}, "double")
        \cup group("distortionShift", {"x", "y"}, "double")
        \cup group("perspectiveShift", {"x", "y"}, "double")
        \cup group("entrancePupilOffset", {"num", "denom"}, "int64")
        \cup group("exposureFalloff", {"a1", "a2", "a3"}, "double")

ProtocolSources ==
    {Source(<<"protocol", "name">>, {"field: protocol isn't of type: string"}, FALSE),
     Source(<<"protocol", "version">>,
            {TypeMessage("version", "string"), PatternMessage("version")}, FALSE)}

RelatedSampleIdsSources ==
    {Source(<<"relatedSampleIds">>,
            {"field: relatedSampleIds isn't of type: array",
             "field: relatedSampleIds/element isn't of type: string",
             "field: relatedSampleIds/element doesn't match required pattern"}, FALSE)}

IdSources(k) == {Source(<<k>>, {TypeMessage(k, "string"), PatternMessage(k)}, FALSE)}

TimingSources ==
    LET b == <<"timing">>
        sy == <<"timing", "synchronization">>
    IN  {Source(b, {"field: timing isn't of type: object"}, FALSE),
         Source(Append(b, "frameRate"), {RationalError}, TRUE),
         Source(Append(b, "mode"), {TypeMessage("mode", "string"), ModeError}, TRUE),
         Source(Append(b, "sequenceNumber"), {TypeMessage("sequenceNumber", "uint16")}, TRUE),
         Source(Append(b, "timecode"), {"field: timecode is missing required fields"}, TRUE),
         Source(sy, {SyncMissingError}, TRUE),
         Source(Append(sy, "frequency"),
                {RationalError,
                 "field: timing/synchronization/frequency is missing required fields"}, FALSE),
         Source(Append(sy, "locked"),
                {"field: timing/synchronization/lock isn't of type: bool"}, FALSE),
         Source(Append(sy, "source"),
                {"field: timing/synchronization/source isn't of type: string",
                 "field: timing/synchronization/source isn't a valid enumeration"}, FALSE),
         Source(Append(sy, "present"), {TypeMessage("present", "bool")}, FALSE),
         Source(sy \o <<"ptp", "domain">>, {TypeMessage("domain", "uint16")}, FALSE),
         Source(sy \o <<"ptp", "offset">>, {TypeMessage("offset", "double")}, FALSE),
         Source(sy \o <<"ptp", "master">>,
                {TypeMessage("master", "string"), PatternMessage("master")}, FALSE)}
        \cup {Source(Append(b, k), {"field: timestamp is missing required fields"}, TRUE) :
                k \in {"recordedTimestamp", "sampleTimestamp"}}
        \cup {Source(sy \o <<"offsets", k>>, {TypeMessage(k, "double")}, FALSE) :
                k \in {"translation", "rotation", "lensEncoders"}}

TrackerSources ==
    Typed(<<"static", "tracker">>, {"firmwareVersion", "make", "model", "serialNumber"},
          "string")
    \cup Typed(<<"tracker">>, {"notes", "slate", "status"}, "string")
    \cup Typed(<<"tracker">>, {"recording"}, "boolean")

TransformsSources ==
    {Source(<<"transforms">>,
            {"Transforms is not an array.", "field: transform is missing required fields"},
            FALSE)}

ErrorSources(name) ==
    CASE name = "Camera" -> CameraSources
      [] name = "Duration" -> DurationSources
      [] name = "GlobalStage" -> GlobalStageSources
      [] name = "Lens" -> LensSources
      [] name = "Protocol" -> ProtocolSources
      [] name = "RelatedSampleIds" -> RelatedSampleIdsSources
      [] name = "SampleId" -> IdSources("sampleId")
      [] name = "StreamId" -> IdSources("streamId")
      [] name = "Timing" -> TimingSources
      [] name = "Tracker" -> TrackerSources
      [] name = "Transforms" -> TransformsSources

\* the last key of a path
Last(path) == path[Len(path)]

(* C12: a sub-field whose key is missing stays absent in the result and    *)
(* contributes no error: every error a call appends is about a key that is *)
(* present in the document.  In particular a timing object without a mode  *)
(* key gets no error about mode.                                           *)
ErrorsAboutPresentKeys(skip) ==
    \A i \in 1..Len(appended) :
        appended[i] \in skip
        \/ \E src \in ErrorSources(called) : appended[i] \in src.msgs /\ Present(src.path)

MissingStaysAbsent ==
    result.has =>
        \A src \in ErrorSources(called) :
            src.top /\ ~Present(src.path) => ~result.value[Last(src.path)].has

C12_MissingKeyNoError ==
    called \in Decoders /\ status = "returned" =>
        ErrorsAboutPresentKeys({}) /\ MissingStaysAbsent

\* the same statement with the error about timing/mode left out of account
C12_MissingKeyNoErrorButMode ==
    called \in Decoders /\ status = "returned" =>
        ErrorsAboutPresentKeys({ModeError}) /\ MissingStaysAbsent

(* C13: in every returned Lens and Synchronization a nested group is there *)
(* only if the document gives it: distortion and undistortion only with a  *)
(* valid radial, exposureFalloff only with a valid a1, distortionShift and *)
(* perspectiveShift only with a valid x, entrancePupilOffset only with a   *)
(* valid num, offsets and ptp only with at least one valid member; no      *)
(* group is returned with all its members absent.                          *)
ValidNumber(j) == j.kind \in {"integer", "float"}

ValidVector(j) == j.kind = "array" /\ \A i \in 1..Len(j.items) : ValidNumber(j.items[i])

ValidInteger(j) == j.kind = "integer"

ValidDomain(j) == j.kind = "integer" /\ j.n \in 0..65535

ValidMaster(j) ==
    /\ j.kind = "string"
    /\ Len(j.s) = 17
    /\ \A i \in {3, 6, 9, 12, 15} : j.s[i] = ":"
    /\ \A i \in (1..17) \ {3, 6, 9, 12, 15} : j.s[i] \in UpperHex

LensMember(g, k) == Section(<<"lens", g, k>>)

SyncMember(g, k) == Section(<<"timing", "synchronization", g, k>>)

LensGroupsCollapse ==
    LET lens == result.value
    IN  /\ lens.distortion.has => ValidVector(LensMember("distortion", "radial"))
        /\ lens.undistortion.has => ValidVector(LensMember("undistortion", "radial"))
        /\ lens.exposureFalloff.has => ValidNumber(LensMember("exposureFalloff", "a1"))
        /\ lens.distortionShift.has => ValidNumber(LensMember("distortionShift", "x"))
        /\ lens.perspectiveShift.has => ValidNumber(LensMember("perspectiveShift", "x"))
        /\ lens.entrancePupilOffset.has
              => ValidInteger(LensMember("entrancePupilOffset", "num"))

SyncGroupsCollapse ==
    LET sync == result.value.synchronization.value
    IN  /\ sync.offsets.has =>
              /\ \E k \in {"translation", "rotation", "lensEncoders"} :
                    ValidNumber(SyncMember("offsets", k))
              /\ \E k \in {"translation", "rotation", "lensEncoders"} :
                    sync.offsets.value[k].has
        /\ sync.ptp.has =>
              /\ \/ ValidDomain(SyncMember("ptp", "domain"))
                 \/ ValidNumber(SyncMember("ptp", "offset"))
                 \/ ValidMaster(SyncMember("ptp", "master"))
              /\ \E k \in {"domain", "offset", "master"} : sync.ptp.value[k].has

C13_GroupCollapse ==
    /\ called = "Lens" /\ status = "returned" /\ result.has => LensGroupsCollapse
    /\ called = "Timing" /\ status = "returned" /\ result.has
       /\ result.value.synchronization.has => SyncGroupsCollapse

\* a Synchronization whose offsets key is there without a valid member, so
\* that offsets collapsed, next to a ptp group that was kept
C13_Witness ==
    /\ called = "Timing" /\ status = "returned" /\ result.has
    /\ result.value.synchronization.has
    /\ Present(<<"timing", "synchronization", "offsets">>)
    /\ ~result.value.synchronization.value.offsets.has
    /\ result.value.synchronization.value.ptp.has

\* a Lens whose distortionShift key is there with y only, so that the group
\* collapsed
C13_LensCollapseReached ==
    /\ called = "Lens" /\ result.has
    /\ Present(<<"lens", "distortionShift", "y">>)
    /\ ~Present(<<"lens", "distortionShift", "x">>)
    /\ ~result.value.distortionShift.has

====
